---- MODULE Spec2Model ----
(***************************************************************************)
(* Token billing worker (src/src/billing.ts): a Cloudflare Worker that     *)
(* keeps per-user balances, settlement markers and rate-window records in  *)
(* one KV namespace.  Every request is an async handler; the handler's     *)
(* awaits on kv.get / kv.put are the points where concurrently handled     *)
(* requests interleave.  One action of this model is one such store        *)
(* operation together with the synchronous code that follows it up to the  *)
(* next store operation.  The namespace is modelled as one consistent      *)
(* copy: a get returns the value of the latest put to that key, and a put   *)
(* accepts every positive expirationTtl.  rateAllow reads the clock between *)
(* its get and its put, so it takes three steps: the get is served, the    *)
(* continuation reads Date.now() and decides, the put is served.           *)
(*                                                                         *)
(* JavaScript values:                                                      *)
(*   number      [nan |-> BOOLEAN, v |-> Int]   (integers and NaN)         *)
(*   string      a sequence of one-character strings                      *)
(*   T | null    << >> for null/undefined, <<x>> for the value x           *)
(* Money: a rate is held in thousandths of a dollar per 1M tokens (0.497   *)
(* is 497), a provider cost in 1e-9 dollars, so that                       *)
(* tokens * rate / 1,000,000 dollars is exactly tokens * rate units.       *)
(***************************************************************************)
EXTENDS Integers, Sequences, FiniteSets, TLC

\* ------------------------------------------------------------------ values

Null == << >>

Some(x) == <<x>>

Num(n) == [nan |-> FALSE, v |-> n]

NaN == [nan |-> TRUE, v |-> 0]

JsAdd(a, b) == IF a.nan \/ b.nan THEN NaN ELSE Num(a.v + b.v)

JsNeg(a) == IF a.nan THEN NaN ELSE Num(0 - a.v)

JsMul(a, b) == IF a.nan \/ b.nan THEN NaN ELSE Num(a.v * b.v)

\* a < b and a > b are false as soon as one side is NaN
JsLt(a, b) == ~a.nan /\ ~b.nan /\ a.v < b.v

JsGt(a, b) == JsLt(b, a)

Digits == <<"0", "1", "2", "3", "4", "5", "6", "7", "8", "9">>

IsDigit(c) == \E d \in 1..10 : Digits[d] = c

DigitVal(c) == (CHOOSE d \in 1..10 : Digits[d] = c) - 1

RECURSIVE NatToString(_)
NatToString(n) ==
    IF n < 10 THEN <<Digits[n + 1]>>
    ELSE NatToString(n \div 10) \o <<Digits[(n % 10) + 1]>>

\* String(x) of a number: decimal digits, a leading "-", or "NaN"
NumberToString(x) ==
    IF x.nan THEN <<"N", "a", "N">>
    ELSE IF x.v < 0 THEN <<"-">> \o NatToString(0 - x.v)
    ELSE NatToString(x.v)

\* the longest prefix of s made of digits
RECURSIVE DigitPrefix(_)
DigitPrefix(s) ==
    IF s = << >> \/ ~IsDigit(Head(s)) THEN << >>
    ELSE <<Head(s)>> \o DigitPrefix(Tail(s))

RECURSIVE DigitsValue(_, _)
DigitsValue(s, acc) ==
    IF s = << >> THEN acc
    ELSE DigitsValue(Tail(s), acc * 10 + DigitVal(Head(s)))

\* parseFloat(s): an optional sign, then the longest run of digits; what
\* follows is ignored; NaN when there is no digit.  (No string of the model
\* holds white space, a fraction, an exponent or "Infinity".)
ParseFloat(s) ==
    LET neg  == s # << >> /\ Head(s) = "-"
        rest == IF s # << >> /\ Head(s) \in {"-", "+"} THEN Tail(s) ELSE s
        ds   == DigitPrefix(rest)
    IN  IF ds = << >> THEN NaN
        ELSE Num(IF neg THEN 0 - DigitsValue(ds, 0) ELSE DigitsValue(ds, 0))

\* Number(s) of a string: the whole string must be a numeral ("" is 0)
StringToNumber(s) ==
    LET rest == IF s # << >> /\ Head(s) \in {"-", "+"} THEN Tail(s) ELSE s
    IN  IF s = << >> THEN Num(0)
        ELSE IF rest # << >> /\ DigitPrefix(rest) = rest THEN ParseFloat(s)
        ELSE NaN

\* a JSON body field: undefined, a number or a string
Undefined == [t |-> "undefined"]

JNum(n) == [t |-> "number", n |-> n]

JStr(s) == [t |-> "string", s |-> s]

\* Number(x || 0) for a body field x
NumberOrZero(x) ==
    IF x.t = "undefined" THEN Num(0)
    ELSE IF x.t = "number" THEN Num(x.n)
    ELSE StringToNumber(x.s)

\* a KV value or an env string used as a condition: null and "" are falsy
Truthy(raw) == raw # Null /\ raw[1] # << >>

\* ------------------------------------------------------------- configuration

\* bounds of the model.  RATE_LIMIT_MAX and RATE_LIMIT_WINDOW are both 60 in
\* the source (line 54); rateAllow is parametric in them and the model runs
\* it with small values so that a full window and a rollover are reached.
RATE_LIMIT_MAX == 2

RATE_LIMIT_WINDOW == 2

\* store operations that may throw in one run of FaultSpec
MaxFaults == 1

\* what the last tick of the clock is, and how many requests one run serves
MaxTime == RATE_LIMIT_WINDOW + 1

MaxRequests == 3

\* enough calls to fill a window, be rejected once and open the next window
MaxRateCalls == RATE_LIMIT_MAX + 2

\* enough calls to fill two windows and one more, over two windows of time
MaxBurstCalls == 2 * RATE_LIMIT_MAX + 1

MaxBurstTime == 2 * RATE_LIMIT_WINDOW

DEFAULT_MODEL_PRICE_IN == 497

DEFAULT_MODEL_PRICE_OUT == 4881

MAX_OUTPUT_TOKENS_PER_REQUEST == 2000

PURCHASE_PLANS == [P1 |-> 1000, P2 |-> 10000, P3 |-> 50000, P4 |-> 100000]

Users == {"u1"}

RequestIds == {"r1", "r2"}

Procs == {"p1", "p2"}

\* ------------------------------------------------------------------- inputs

Body(u, r, sku, pt, ct, pin, pout) ==
    [userId |-> u, requestId |-> r, sku |-> sku, promptTokens |-> pt,
     completionTokens |-> ct, priceIn |-> pin, priceOut |-> pout]

\* promptTokens, completionTokens of a /consume body
TokenInputs ==
    { <<JNum(100), JNum(50)>>,
      <<JNum(900), JNum(200)>>,
      <<Undefined, JNum(2001)>>,
      <<JNum(-500), Undefined>>,
      <<JStr(<<"a", "b", "c">>), JNum(50)>> }

ConsumeBodies ==
    { Some(Body(Some(u), Some("r1"), Null, t[1], t[2], Undefined, Undefined)) :
        u \in Users, t \in TokenInputs }
    \cup { Some(Body(Some(u), Some("r2"), Null, JNum(100), JNum(50), Undefined, Undefined)) :
        u \in Users }
    \cup { Null,
           Some(Body(Null, Some("r1"), Null, JNum(100), JNum(50), Undefined, Undefined)),
           Some(Body(Some("u1"), Null, Null, JNum(100), JNum(50), Undefined, Undefined)) }

PurchaseBodies ==
    { Some(Body(Some(u), Null, Some(s), Undefined, Undefined, Undefined, Undefined)) :
        u \in Users, s \in {"P1", "PX"} }

BalanceQueries ==
    { Some(Body(Some(u), Null, Null, Undefined, Undefined, Undefined, Undefined)) :
        u \in Users }

PriceBodies ==
    { Some(Body(Null, Null, Null, Undefined, Undefined, JNum(2), Undefined)),
      Some(Body(Null, Null, Null, Undefined, Undefined, JStr(<<"2">>), JNum(3))) }

\* a request: its route, its JSON body (null when it does not parse) and
\* whether its x-admin-key header equals env.ADMIN_KEY
Requests ==
    { [route |-> "consume", body |-> b, key |-> FALSE] : b \in ConsumeBodies }
    \cup { [route |-> "purchase", body |-> b, key |-> FALSE] : b \in PurchaseBodies }
    \cup { [route |-> "balance", body |-> b, key |-> FALSE] : b \in BalanceQueries }
    \cup { [route |-> "set-prices", body |-> b, key |-> k] :
             b \in PriceBodies, k \in BOOLEAN }

\* the requests of the runs in which requests overlap: purchases and
\* well-formed consumes with token counts >= 0
ConcurrentRequests ==
    { [route |-> "purchase", key |-> FALSE,
       body |-> Some(Body(Some("u1"), Null, Some("P1"), Undefined, Undefined,
                          Undefined, Undefined))] }
    \cup { [route |-> "consume", key |-> FALSE,
            body |-> Some(Body(Some("u1"), Some(r), Null, t[1], t[2],
                               Undefined, Undefined))] :
              r \in RequestIds, t \in {<<JNum(100), JNum(50)>>, <<JNum(900), JNum(100)>>} }

\* the requests of the runs in which requests overlap and store operations fail
ChaosRequests ==
    { [route |-> "purchase", key |-> FALSE,
       body |-> Some(Body(Some("u1"), Null, Some("P1"), Undefined, Undefined,
                          Undefined, Undefined))],
      [route |-> "consume", key |-> FALSE,
       body |-> Some(Body(Some("u1"), Some("r1"), Null, JNum(100), JNum(50),
                          Undefined, Undefined))],
      [route |-> "consume", key |-> FALSE,
       body |-> Some(Body(Some("u1"), Some("r2"), Null, JNum(900), JNum(100),
                          Undefined, Undefined))] }

\* the requests of the runs that exercise the rate limiter
RateRequests ==
    { [route |-> "purchase", key |-> FALSE,
       body |-> Some(Body(Some("u1"), Null, Some("P1"), Undefined, Undefined,
                          Undefined, Undefined))],
      [route |-> "consume", key |-> FALSE,
       body |-> Some(Body(Some("u1"), Some("r1"), Null, JNum(100), JNum(50),
                          Undefined, Undefined))],
      [route |-> "consume", key |-> FALSE,
       body |-> Some(Body(Some("u1"), Some("r2"), Null, Undefined, JNum(2001),
                          Undefined, Undefined))] }

\* the requests of the runs in which rateAllow calls overlap while time passes
LimiterRequests ==
    { [route |-> "consume", key |-> FALSE,
       body |-> Some(Body(Some("u1"), Some("r2"), Null, Undefined, JNum(2001),
                          Undefined, Undefined))] }

\* the requests of the runs in which two addBalance calls overlap
CreditRequests ==
    { [route |-> "purchase", key |-> FALSE,
       body |-> Some(Body(Some("u1"), Null, Some(sku), Undefined, Undefined,
                          Undefined, Undefined))] :
        sku \in DOMAIN PURCHASE_PLANS }

\* what env.MODEL_PRICE_IN / env.MODEL_PRICE_OUT may hold: unset, "2",
\* "abc", "", "0", "-1"
EnvValues ==
    { Null, Some(<<"2">>), Some(<<"a", "b", "c">>), Some(<< >>), Some(<<"0">>),
      Some(<<"-", "1">>) }

\* the requests of the runs with configured prices
PriceRequests ==
    { [route |-> "purchase", key |-> FALSE,
       body |-> Some(Body(Some("u1"), Null, Some("P1"), Undefined, Undefined,
                          Undefined, Undefined))],
      [route |-> "consume", key |-> FALSE,
       body |-> Some(Body(Some("u1"), Some("r1"), Null, JNum(100), JNum(50),
                          Undefined, Undefined))] }
    \cup { [route |-> "set-prices", body |-> b, key |-> TRUE] : b \in PriceBodies }

\* -------------------------------------------------------------------- state

VARIABLES
    kvBalance,   \* balance:<userId>   -> null or the stored string
    kvConsumed,  \* consumed:<requestId> -> null or the stored string
    kvRate,      \* rate:<userId>      -> null or [json, exp] (exp: expiry time)
    kvMeta,      \* meta:priceIn, meta:priceOut -> null or the stored string
    env,         \* the deployment's MODEL_PRICE_IN / MODEL_PRICE_OUT
    clock,       \* Math.floor(Date.now() / 1000)
    req,         \* the requests in flight: position and local variables
    resp,        \* the request that responded last, with its locals
    budget,      \* requests the run may still accept
    faults,      \* store operations that have thrown
    debits,      \* history: balance writes made by /consume per requestId
    ledger,      \* history: sum of the deltas of the completed addBalance calls
    win,         \* history: per user, the window the rateAllow calls fall in,
                 \*   the calls made in it, the calls rejected so far and the
                 \*   Date.now() of every call that returned true (ascending)
    markFails    \* history: markConsumed writes that threw, per requestId

vars == <<kvBalance, kvConsumed, kvRate, kvMeta, env, clock, req, resp,
          budget, faults, debits, ledger, win, markFails>>

kv == <<kvBalance, kvConsumed, kvRate, kvMeta>>

hist == <<debits, ledger, win, markFails>>

Snapshot == [balance |-> kvBalance, consumed |-> kvConsumed, rate |-> kvRate,
             meta |-> kvMeta]

\* a request slot that handles nothing
Blank ==
    [pc |-> "idle", route |-> "none", body |-> Null, key |-> FALSE,
     meta |-> Null, rateRaw |-> Null, now |-> 0, data |-> Null, ttl |-> 0,
     pTokens |-> Num(0), cTokens |-> Num(0), provider |-> Null,
     userTokens |-> Num(0), balance |-> Num(0), raw |-> Null, cur |-> Num(0),
     delta |-> Num(0), next |-> Num(0), wrote |-> << >>, pre |-> Null,
     kind |-> "none", status |-> 0, at |-> "idle"]

InitCommon ==
    /\ kvBalance = [u \in Users |-> Null]
    /\ kvConsumed = [r \in RequestIds |-> Null]
    /\ kvRate = [u \in Users |-> Null]
    /\ kvMeta = [priceIn |-> Null, priceOut |-> Null]
    /\ env = [MODEL_PRICE_IN |-> Null, MODEL_PRICE_OUT |-> Null]
    /\ clock = 0
    /\ req = [p \in Procs |-> Blank]
    /\ resp = Blank
    /\ faults = 0
    /\ debits = [r \in RequestIds |-> 0]
    /\ ledger = [u \in Users |-> Num(0)]
    /\ win = [u \in Users |-> [start |-> Null, calls |-> 0, rejected |-> 0,
                               admits |-> << >>]]
    /\ markFails = [r \in RequestIds |-> 0]

Init == InitCommon /\ budget = MaxRequests

SeqInit == InitCommon /\ budget = MaxRequests

RateInit == InitCommon /\ budget = MaxRateCalls

BurstInit == InitCommon /\ budget = MaxBurstCalls

\* a deployment with any of the env price settings
PriceInit ==
    /\ kvBalance = [u \in Users |-> Null]
    /\ kvConsumed = [r \in RequestIds |-> Null]
    /\ kvRate = [u \in Users |-> Null]
    /\ kvMeta = [priceIn |-> Null, priceOut |-> Null]
    /\ env \in [MODEL_PRICE_IN : EnvValues, MODEL_PRICE_OUT : EnvValues]
    /\ clock = 0
    /\ req = [p \in Procs |-> Blank]
    /\ resp = Blank
    /\ faults = 0
    /\ debits = [r \in RequestIds |-> 0]
    /\ ledger = [u \in Users |-> Num(0)]
    /\ win = [u \in Users |-> [start |-> Null, calls |-> 0, rejected |-> 0,
                               admits |-> << >>]]
    /\ markFails = [r \in RequestIds |-> 0]
    /\ budget = MaxRequests

\* ----------------------------------------------------------- pure functions

\* a parsed dollar amount in the model's unit for rates
Dollars(x) == JsMul(x, Num(1000))

\* getModelPrices(env): an env override that is set and not "" is parsed with
\* parseFloat, whatever it holds; otherwise the default
getModelPrices(e) ==
    [priceIn  |-> IF Truthy(e.MODEL_PRICE_IN)
                  THEN Dollars(ParseFloat(e.MODEL_PRICE_IN[1]))
                  ELSE Num(DEFAULT_MODEL_PRICE_IN),
     priceOut |-> IF Truthy(e.MODEL_PRICE_OUT)
                  THEN Dollars(ParseFloat(e.MODEL_PRICE_OUT[1]))
                  ELSE Num(DEFAULT_MODEL_PRICE_OUT)]

\* getModelPricesFromKV(env): the same over meta:priceIn / meta:priceOut
getModelPricesFromKV(m) ==
    [priceIn  |-> IF Truthy(m.priceIn)
                  THEN Dollars(ParseFloat(m.priceIn[1]))
                  ELSE Num(DEFAULT_MODEL_PRICE_IN),
     priceOut |-> IF Truthy(m.priceOut)
                  THEN Dollars(ParseFloat(m.priceOut[1]))
                  ELSE Num(DEFAULT_MODEL_PRICE_OUT)]

\* calcProviderCost: the rates come from getModelPrices(env) alone
calcProviderCost(promptTokens, completionTokens, e) ==
    LET prices     == getModelPrices(e)
        inputCost  == JsMul(promptTokens, prices.priceIn)
        outputCost == JsMul(completionTokens, prices.priceOut)
    IN  [inputCost |-> inputCost, outputCost |-> outputCost,
         totalCost |-> JsAdd(inputCost, outputCost)]

tokensToUserTokens(promptTokens, completionTokens) ==
    JsAdd(promptTokens, completionTokens)

\* mutant of BalanceOf: the isNaN check is missing
BalanceOf_NoNaNCheck(raw) == IF Truthy(raw) THEN ParseFloat(raw[1]) ELSE Num(0)

\* getBalance, after the read: raw ? parseFloat(raw) : 0, and 0 for NaN
BalanceOf(raw) ==
    LET num == IF Truthy(raw) THEN ParseFloat(raw[1]) ELSE Num(0)
    IN  IF num.nan THEN Num(0) ELSE num

\* mutant of NextBalance: the delta is subtracted
NextBalance_Subtract(cur, delta) == JsAdd(cur, JsNeg(delta))

\* mutant of NextBalance: the balance read is dropped
NextBalance_Overwrite(cur, delta) == delta

\* addBalance: next = cur + delta
NextBalance(cur, delta) == JsAdd(cur, delta)

\* JSON.stringify / JSON.parse of a rate record {count, start}
JsonStringify(data) ==
    [count |-> NumberToString(Num(data.count)),
     start |-> NumberToString(Num(data.start))]

JsonParse(json) ==
    [count |-> ParseFloat(json.count).v, start |-> ParseFloat(json.start).v]

\* kv.get of a key written with expirationTtl: null once it has expired
RateGet(u) ==
    IF kvRate[u] # Null /\ clock < kvRate[u][1].exp
    THEN Some(kvRate[u][1].json) ELSE Null

\* mutant of WindowOver: the window is over one second early
WindowOver_Early(data, now) ==
    IF data = Null THEN TRUE ELSE now - data[1].start >= RATE_LIMIT_WINDOW - 1

\* rateAllow: !data || now - data.start >= RATE_LIMIT_WINDOW
WindowOver(data, now) ==
    IF data = Null THEN TRUE ELSE now - data[1].start >= RATE_LIMIT_WINDOW

\* mutant of WindowFull: the last slot of a window is refused
WindowFull_OneEarly(data) == data[1].count >= RATE_LIMIT_MAX - 1

\* mutant of WindowFull: off by one
WindowFull_OffByOne(data) == data[1].count > RATE_LIMIT_MAX

\* rateAllow: data.count >= RATE_LIMIT_MAX
WindowFull(data) == data[1].count >= RATE_LIMIT_MAX

\* the rate record as rateAllow holds it after the read
RateData(raw) == IF Truthy(raw) THEN Some(JsonParse(raw[1])) ELSE Null

\* mutant of isConsumed: the marker is never seen
isConsumed_Never(raw) == FALSE

\* isConsumed: (await kv.get(CONSUMED_KEY(requestId))) !== null
isConsumed(raw) == raw # Null

\* mutant of OutputTooLarge: the cap is not enforced
OutputTooLarge_Never(cTokens) == FALSE

\* handleConsume: cTokens > MAX_OUTPUT_TOKENS_PER_REQUEST
OutputTooLarge(cTokens) == JsGt(cTokens, Num(MAX_OUTPUT_TOKENS_PER_REQUEST))

\* mutant of Insufficient: the check never rejects
Insufficient_Never(balance, userTokens) == FALSE

\* handleConsume: balance < userTokens
Insufficient(balance, userTokens) == JsLt(balance, userTokens)

\* ------------------------------------------------------------------ helpers

\* request p moves on, with its record replaced by r
Goto(p, r) == req' = [req EXCEPT ![p] = r] /\ UNCHANGED resp

\* request p responds: r is what it ends with
Respond(p, r, kind, status) ==
    /\ req' = [req EXCEPT ![p] = Blank]
    /\ resp' = [r EXCEPT !.pc = "done", !.at = r.pc, !.kind = kind, !.status = status]

Wrote(r, key) == Append(r.wrote, key)

UserOf(r) == r.body[1].userId[1]

RequestOf(r) == r.body[1].requestId[1]

\* ----------------------------------------------------------------- handlers

\* handleConsume up to its first store operation: the body check
HandleConsume(p, r) ==
    IF r.body = Null \/ r.body[1].userId = Null \/ r.body[1].requestId = Null
    THEN Respond(p, r, "invalid_body", 400)
    ELSE Goto(p, [r EXCEPT !.pc = "rate_get"])

\* handlePurchase up to its first store operation
HandlePurchase(p, r) ==
    IF r.body = Null \/ r.body[1].userId = Null \/ r.body[1].sku = Null
    THEN Respond(p, r, "invalid_body", 400)
    ELSE IF r.body[1].sku[1] \notin DOMAIN PURCHASE_PLANS
    THEN Respond(p, r, "unknown_sku", 400)
    ELSE Goto(p, [r EXCEPT !.pc = "add_get",
                           !.delta = Num(PURCHASE_PLANS[r.body[1].sku[1]])])

\* handleBalance up to its store operation
HandleBalance(p, r) ==
    IF r.body = Null \/ r.body[1].userId = Null
    THEN Respond(p, r, "userId_required", 400)
    ELSE Goto(p, [r EXCEPT !.pc = "bal_get"])

\* handleAdminSetPrices up to its first store operation
HandleAdminSetPrices(p, r) ==
    IF ~r.key THEN Respond(p, r, "unauthorized", 401)
    ELSE IF r.body = Null THEN Respond(p, r, "invalid_body", 400)
    ELSE IF r.body[1].priceIn.t = "number" THEN Goto(p, [r EXCEPT !.pc = "set_in"])
    ELSE IF r.body[1].priceOut.t = "number" THEN Goto(p, [r EXCEPT !.pc = "set_out"])
    ELSE Respond(p, r, "prices_set", 200)

\* fetch: a request arrives, the stored prices are read into meta (which
\* nothing reads afterwards), and the request is routed
Fetch(p, Q) ==
    /\ req[p].pc = "idle"
    /\ budget > 0
    /\ budget' = budget - 1
    /\ \E q \in Q :
         LET r == [Blank EXCEPT !.route = q.route, !.body = q.body, !.key = q.key,
                                !.meta = Some(getModelPricesFromKV(kvMeta)),
                                !.pre = Some(Snapshot)]
         IN  CASE q.route = "consume"    -> HandleConsume(p, r)
               [] q.route = "purchase"   -> HandlePurchase(p, r)
               [] q.route = "balance"    -> HandleBalance(p, r)
               [] q.route = "set-prices" -> HandleAdminSetPrices(p, r)
    /\ UNCHANGED <<kv, env, clock, faults, hist>>

\* rateAllow: const raw = await kv.get(key)
RateAllowGet(p) ==
    /\ req[p].pc = "rate_get"
    /\ Goto(p, [req[p] EXCEPT !.pc = "rate_now", !.rateRaw = RateGet(UserOf(req[p]))])
    /\ UNCHANGED <<kv, env, clock, budget, faults, hist>>

\* the window the calls of one user fall in, whatever the store holds: a
\* call opens a window when there is none or the open one is over
WinAfter(w, now) ==
    IF w.start = Null THEN [w EXCEPT !.start = Some(now), !.calls = 1]
    ELSE IF now - w.start[1] >= RATE_LIMIT_WINDOW
    THEN [w EXCEPT !.start = Some(now), !.calls = 1]
    ELSE [w EXCEPT !.calls = @ + 1]

\* rateAllow: expirationTtl of a record that opens a window
TtlNew == RATE_LIMIT_WINDOW + 5

\* mutant of TtlRest: the five seconds of grace are subtracted
TtlRest_NoGrace(now, start) == RATE_LIMIT_WINDOW - (now - start) - 5

\* rateAllow: expirationTtl of a record that counts one more call
TtlRest(now, start) == RATE_LIMIT_WINDOW - (now - start) + 5

\* mutant of RateAllowDecide: a rejected call restarts the window at now
RateAllowDecide_RejectRestarts(p) ==
    LET r    == req[p]
        u    == UserOf(r)
        now  == clock
        data == RateData(r.rateRaw)
    IN  /\ r.pc = "rate_now"
        /\ win' = [win EXCEPT ![u] =
                      [WinAfter(@, now) EXCEPT !.rejected =
                          IF ~WindowOver(data, now) /\ WindowFull(data)
                          THEN @ + 1 ELSE @]]
        /\ IF WindowOver(data, now)
           THEN /\ UNCHANGED kvRate
                /\ Goto(p, [r EXCEPT !.pc = "rate_put", !.now = now,
                                     !.data = Some([count |-> 1, start |-> now]),
                                     !.ttl = TtlNew])
           ELSE IF WindowFull(data)
           THEN /\ kvRate' = [kvRate EXCEPT ![u] =
                      Some([json |-> JsonStringify([count |-> data[1].count,
                                                    start |-> now]),
                            exp |-> clock + RATE_LIMIT_WINDOW + 5])]
                /\ Respond(p, [r EXCEPT !.now = now], "rate_limit_exceeded", 429)
           ELSE /\ UNCHANGED kvRate
                /\ Goto(p, [r EXCEPT !.pc = "rate_put", !.now = now,
                                     !.data = Some([count |-> data[1].count + 1,
                                                    start |-> data[1].start]),
                                     !.ttl = TtlRest(now, data[1].start)])
        /\ UNCHANGED <<kvBalance, kvConsumed, kvMeta, env, clock, budget, faults,
                       debits, ledger, markFails>>

\* rateAllow between its get and its put: now = Date.now(), then a new
\* window, a rejection (no put), or one more count
RateAllowDecide(p) ==
    LET r    == req[p]
        u    == UserOf(r)
        now  == clock
        data == RateData(r.rateRaw)
    IN  /\ r.pc = "rate_now"
        /\ win' = [win EXCEPT ![u] =
                      [WinAfter(@, now) EXCEPT !.rejected =
                          IF ~WindowOver(data, now) /\ WindowFull(data)
                          THEN @ + 1 ELSE @]]
        /\ IF WindowOver(data, now)
           THEN Goto(p, [r EXCEPT !.pc = "rate_put", !.now = now,
                                  !.data = Some([count |-> 1, start |-> now]),
                                  !.ttl = TtlNew])
           ELSE IF WindowFull(data)
           THEN Respond(p, [r EXCEPT !.now = now], "rate_limit_exceeded", 429)
           ELSE Goto(p, [r EXCEPT !.pc = "rate_put", !.now = now,
                                  !.data = Some([count |-> data[1].count + 1,
                                                 start |-> data[1].start]),
                                  !.ttl = TtlRest(now, data[1].start)])
        /\ UNCHANGED <<kv, env, clock, budget, faults, debits, ledger, markFails>>

\* the times in seq and t, in ascending order
RECURSIVE Inserted(_, _)
Inserted(seq, t) ==
    IF seq = << >> THEN <<t>>
    ELSE IF t <= Head(seq) THEN <<t>> \o seq
    ELSE <<Head(seq)>> \o Inserted(Tail(seq), t)

\* rateAllow: await kv.put(key, JSON.stringify(data), {expirationTtl}); return true
RateAllowPut(p) ==
    LET r == req[p]
        u == UserOf(r)
    IN  /\ r.pc = "rate_put"
        /\ kvRate' = [kvRate EXCEPT ![u] =
              Some([json |-> JsonStringify(r.data[1]), exp |-> clock + r.ttl])]
        /\ win' = [win EXCEPT ![u].admits = Inserted(@, r.now)]
        /\ Goto(p, [r EXCEPT !.pc = "is_consumed", !.wrote = Wrote(r, "rate")])
        /\ UNCHANGED <<kvBalance, kvConsumed, kvMeta, env, clock, budget, faults,
                       debits, ledger, markFails>>

\* handleConsume: isConsumed, then the cap on completionTokens and the costs
CheckConsumed(p) ==
    LET r       == req[p]
        pTokens == NumberOrZero(r.body[1].promptTokens)
        cTokens == NumberOrZero(r.body[1].completionTokens)
    IN  /\ r.pc = "is_consumed"
        /\ IF isConsumed(kvConsumed[RequestOf(r)])
           THEN Respond(p, r, "already_consumed", 200)
           ELSE IF OutputTooLarge(cTokens)
           THEN Respond(p, [r EXCEPT !.pTokens = pTokens, !.cTokens = cTokens],
                        "output_too_large", 400)
           ELSE Goto(p, [r EXCEPT !.pc = "get_balance",
                                  !.pTokens = pTokens, !.cTokens = cTokens,
                                  !.provider = Some(calcProviderCost(pTokens, cTokens, env)),
                                  !.userTokens = tokensToUserTokens(pTokens, cTokens)])
        /\ UNCHANGED <<kv, env, clock, budget, faults, hist>>

\* mutant of ConsumeGetBalance: the marker is written before the debit
ConsumeGetBalance_MarkFirst(p) ==
    LET r       == req[p]
        balance == BalanceOf(kvBalance[UserOf(r)])
    IN  /\ r.pc = "get_balance"
        /\ IF Insufficient(balance, r.userTokens)
           THEN /\ UNCHANGED kvConsumed
                /\ Respond(p, [r EXCEPT !.balance = balance], "insufficient_balance", 402)
           ELSE /\ kvConsumed' = [kvConsumed EXCEPT ![RequestOf(r)] = Some(<<"1">>)]
                /\ Goto(p, [r EXCEPT !.pc = "add_get", !.balance = balance,
                                     !.delta = JsNeg(r.userTokens),
                                     !.wrote = Wrote(r, "consumed")])
        /\ UNCHANGED <<kvBalance, kvRate, kvMeta, env, clock, budget, faults, hist>>

\* handleConsume: const balance = await getBalance(...), and the check
ConsumeGetBalance(p) ==
    LET r       == req[p]
        balance == BalanceOf(kvBalance[UserOf(r)])
    IN  /\ r.pc = "get_balance"
        /\ IF Insufficient(balance, r.userTokens)
           THEN Respond(p, [r EXCEPT !.balance = balance], "insufficient_balance", 402)
           ELSE Goto(p, [r EXCEPT !.pc = "add_get", !.balance = balance,
                                  !.delta = JsNeg(r.userTokens)])
        /\ UNCHANGED <<kv, env, clock, budget, faults, hist>>

\* addBalance: const cur = await getBalance(...); const next = cur + delta
AddBalanceGet(p) ==
    LET r   == req[p]
        raw == kvBalance[UserOf(r)]
        cur == BalanceOf(raw)
    IN  /\ r.pc = "add_get"
        /\ Goto(p, [r EXCEPT !.pc = "add_put", !.raw = raw, !.cur = cur,
                             !.next = NextBalance(cur, r.delta)])
        /\ UNCHANGED <<kv, env, clock, budget, faults, hist>>

\* addBalance: await setBalance(kv, userId, next); return next
AddBalancePut(p) ==
    LET r  == req[p]
        u  == UserOf(r)
        r1 == [r EXCEPT !.wrote = Wrote(r, "balance")]
    IN  /\ r.pc = "add_put"
        /\ kvBalance' = [kvBalance EXCEPT ![u] = Some(NumberToString(r.next))]
        /\ ledger' = [ledger EXCEPT ![u] = JsAdd(@, r.delta)]
        /\ IF r.route = "consume"
           THEN /\ debits' = [debits EXCEPT ![RequestOf(r)] = @ + 1]
                /\ Goto(p, [r1 EXCEPT !.pc = "mark"])
           ELSE /\ UNCHANGED debits
                /\ Respond(p, r1, "purchased", 200)
        /\ UNCHANGED <<kvConsumed, kvRate, kvMeta, env, clock, budget, faults, win,
                       markFails>>

\* handleConsume: await markConsumed(...), then the success response
MarkConsumed(p) ==
    LET r == req[p]
    IN  /\ r.pc = "mark"
        /\ kvConsumed' = [kvConsumed EXCEPT ![RequestOf(r)] = Some(<<"1">>)]
        /\ Respond(p, [r EXCEPT !.wrote = Wrote(r, "consumed")], "ok", 200)
        /\ UNCHANGED <<kvBalance, kvRate, kvMeta, env, clock, budget, faults, hist>>

\* handleBalance: const bal = await getBalance(...)
BalanceGet(p) ==
    LET r == req[p]
    IN  /\ r.pc = "bal_get"
        /\ Respond(p, [r EXCEPT !.raw = kvBalance[UserOf(r)],
                                !.balance = BalanceOf(kvBalance[UserOf(r)])],
                   "balance", 200)
        /\ UNCHANGED <<kv, env, clock, budget, faults, hist>>

\* handleAdminSetPrices: put('meta:priceIn', String(body.priceIn))
SetPriceIn(p) ==
    LET r  == req[p]
        r1 == [r EXCEPT !.wrote = Wrote(r, "priceIn")]
    IN  /\ r.pc = "set_in"
        /\ kvMeta' = [kvMeta EXCEPT !.priceIn =
                         Some(NumberToString(Num(r.body[1].priceIn.n)))]
        /\ IF r.body[1].priceOut.t = "number"
           THEN Goto(p, [r1 EXCEPT !.pc = "set_out"])
           ELSE Respond(p, r1, "prices_set", 200)
        /\ UNCHANGED <<kvBalance, kvConsumed, kvRate, env, clock, budget, faults, hist>>

\* handleAdminSetPrices: put('meta:priceOut', String(body.priceOut))
SetPriceOut(p) ==
    LET r == req[p]
    IN  /\ r.pc = "set_out"
        /\ kvMeta' = [kvMeta EXCEPT !.priceOut =
                         Some(NumberToString(Num(r.body[1].priceOut.n)))]
        /\ Respond(p, [r EXCEPT !.wrote = Wrote(r, "priceOut")], "prices_set", 200)
        /\ UNCHANGED <<kvBalance, kvConsumed, kvRate, env, clock, budget, faults, hist>>

\* a second passes, up to the last tick T of the run
TickTo(T) ==
    /\ clock < T
    /\ clock' = clock + 1
    /\ UNCHANGED <<kv, env, req, resp, budget, faults, hist>>

Tick == TickTo(MaxTime)

\* no request is in flight and time passes until the rate record of a user
\* has expired (expirationTtl)
RecordExpires ==
    /\ \A p \in Procs : req[p].pc = "idle"
    /\ \E u \in Users :
          /\ kvRate[u] # Null
          /\ clock < kvRate[u][1].exp
          /\ clock' = kvRate[u][1].exp
    /\ UNCHANGED <<kv, env, req, resp, budget, faults, hist>>

\* ------------------------------------------------------------------ faults

\* the positions at which a request is about to issue a store operation
AtStoreOp(r) ==
    r.pc \in {"rate_get", "rate_put", "is_consumed", "get_balance", "add_get",
              "add_put", "mark", "bal_get", "set_in", "set_out"}

\* mutant of KVThrows: a markConsumed that throws is swallowed and the
\* request answers success
KVThrows_SwallowMark(p) ==
    LET r == req[p]
    IN  /\ AtStoreOp(r)
        /\ faults < MaxFaults
        /\ faults' = faults + 1
        /\ markFails' = IF r.pc = "mark"
                        THEN [markFails EXCEPT ![RequestOf(r)] = @ + 1]
                        ELSE markFails
        /\ IF r.pc = "mark" THEN Respond(p, r, "ok", 200)
           ELSE Respond(p, r, "unhandled_rejection", 500)
        /\ UNCHANGED <<kv, env, clock, budget, debits, ledger, win>>

\* the store operation request p is about to issue throws.  The handler's
\* promise rejects; fetch has returned that promise without awaiting it, so
\* its try/catch is no longer in force and the rejection leaves fetch.
KVThrows(p) ==
    LET r == req[p]
    IN  /\ AtStoreOp(r)
        /\ faults < MaxFaults
        /\ faults' = faults + 1
        /\ markFails' = IF r.pc = "mark"
                        THEN [markFails EXCEPT ![RequestOf(r)] = @ + 1]
                        ELSE markFails
        /\ Respond(p, r, "unhandled_rejection", 500)
        /\ UNCHANGED <<kv, env, clock, budget, debits, ledger, win>>

\* fetch: await getModelPricesFromKV(env) throws inside the try block
FetchThrows(p, Q) ==
    /\ req[p].pc = "idle"
    /\ budget > 0
    /\ faults < MaxFaults
    /\ budget' = budget - 1
    /\ faults' = faults + 1
    /\ \E q \in Q :
         Respond(p, [Blank EXCEPT !.route = q.route, !.body = q.body, !.key = q.key,
                                  !.pre = Some(Snapshot)],
                 "server_error", 500)
    /\ UNCHANGED <<kv, env, clock, hist>>

\* ----------------------------------------------------------- specifications

Step(p) ==
    \/ RateAllowGet(p)
    \/ RateAllowDecide(p)
    \/ RateAllowPut(p)
    \/ CheckConsumed(p)
    \/ ConsumeGetBalance(p)
    \/ AddBalanceGet(p)
    \/ AddBalancePut(p)
    \/ MarkConsumed(p)
    \/ BalanceGet(p)
    \/ SetPriceIn(p)
    \/ SetPriceOut(p)

\* the steps of the requests ConcurrentRequests and RateRequests hold
CoreStep(p) ==
    \/ RateAllowGet(p)
    \/ RateAllowDecide(p)
    \/ RateAllowPut(p)
    \/ CheckConsumed(p)
    \/ ConsumeGetBalance(p)
    \/ AddBalanceGet(p)
    \/ AddBalancePut(p)
    \/ MarkConsumed(p)

\* a burst of overlapping requests: their store operations interleave in
\* every order (the clock does not advance during the burst)
Next == \E p \in Procs : Fetch(p, ConcurrentRequests) \/ CoreStep(p)

Spec == Init /\ [][Next]_vars

Quiet == \A q \in Procs : req[q].pc = "idle"

\* one request at a time: a request is accepted when none is in flight
SeqNext ==
    \/ Quiet /\ Fetch("p1", Requests)
    \/ Step("p1")
    \/ Tick

SeqSpec == SeqInit /\ [][SeqNext]_vars

\* one /consume at a time for one user, over a window and its rollover
RateNext ==
    \/ Quiet /\ Fetch("p1", RateRequests)
    \/ CoreStep("p1")
    \/ Tick

RateSpec == RateInit /\ [][RateNext]_vars

\* one request at a time, over a store whose operations may throw
FaultNext ==
    \/ Quiet /\ (Fetch("p1", ConcurrentRequests) \/ FetchThrows("p1", ConcurrentRequests))
    \/ CoreStep("p1")
    \/ KVThrows("p1")

FaultSpec == Init /\ [][FaultNext]_vars

\* a burst of overlapping requests over a store whose operations may throw
ChaosNext ==
    \E p \in Procs :
        \/ Fetch(p, ChaosRequests)
        \/ FetchThrows(p, ChaosRequests)
        \/ CoreStep(p)
        \/ KVThrows(p)

ChaosSpec == Init /\ [][ChaosNext]_vars

\* one /consume at a time for one user, long enough for a full window, the
\* rejections that follow it and a second full window
BurstNext ==
    \/ Quiet /\ Fetch("p1", RateRequests)
    \/ CoreStep("p1")
    \/ TickTo(MaxBurstTime)

BurstSpec == BurstInit /\ [][BurstNext]_vars

\* the balance record two overlapping addBalance calls start from
CreditStart == Some(<<"8", "5", "0">>)

\* the store after a purchase of P1 and a consume of 100 + 50 for r1, with
\* two more requests to come
CreditInit ==
    /\ kvBalance = [u \in Users |-> CreditStart]
    /\ kvConsumed = [r \in RequestIds |-> IF r = "r1" THEN Some(<<"1">>) ELSE Null]
    /\ kvRate = [u \in Users |->
                    Some([json |-> JsonStringify([count |-> 1, start |-> 0]),
                          exp |-> TtlNew])]
    /\ kvMeta = [priceIn |-> Null, priceOut |-> Null]
    /\ env = [MODEL_PRICE_IN |-> Null, MODEL_PRICE_OUT |-> Null]
    /\ clock = 0
    /\ req = [p \in Procs |-> Blank]
    /\ resp = Blank
    /\ faults = 0
    /\ debits = [r \in RequestIds |-> IF r = "r1" THEN 1 ELSE 0]
    /\ ledger = [u \in Users |-> BalanceOf(CreditStart)]
    /\ win = [u \in Users |-> [start |-> Some(0), calls |-> 1, rejected |-> 0,
                               admits |-> <<0>>]]
    /\ markFails = [r \in RequestIds |-> 0]
    /\ budget = 2

\* one request at a time in a deployment with env price settings
PriceNext ==
    \/ Quiet /\ Fetch("p1", PriceRequests)
    \/ CoreStep("p1")
    \/ SetPriceIn("p1")
    \/ SetPriceOut("p1")

PriceSpec == PriceInit /\ [][PriceNext]_vars

\* two purchases for one account that may overlap: the second arrives at
\* any moment after the first, and the gets and puts of their addBalance
\* calls interleave in every order
CreditNext ==
    \/ budget = 2 /\ Fetch("p1", CreditRequests)
    \/ budget = 1 /\ Fetch("p2", CreditRequests)
    \/ \E p \in Procs : AddBalanceGet(p) \/ AddBalancePut(p)

CreditSpec == CreditInit /\ [][CreditNext]_vars

\* overlapping rateAllow calls for one user while time passes: the gets,
\* the clock reads and the puts interleave in every order
LimiterStep(p) ==
    \/ RateAllowGet(p)
    \/ RateAllowDecide(p)
    \/ RateAllowPut(p)
    \/ CheckConsumed(p)

LimiterNext ==
    \/ \E p \in Procs : Fetch(p, LimiterRequests) \/ LimiterStep(p)
    \/ TickTo(RATE_LIMIT_WINDOW)
    \/ RecordExpires

LimiterSpec == RateInit /\ [][LimiterNext]_vars
\* ------------------------------------------------------------------- claims

\* what a body field counts for when it is a number or is missing
FieldValue(x) == IF x.t = "number" THEN x.n ELSE 0

\* the last response answers a /consume that passed the body check
ConsumeResponse ==
    /\ resp.route = "consume"
    /\ resp.kind \notin {"none", "invalid_body", "server_error"}

\* C1: one /consume at a time, rate limit not exhausted.  A consume whose
\* workId has no marker, whose token counts are numbers within the cap and
\* whose billable amount the balance covers ends in success, deducts
\* promptTokens + completionTokens, lowers the balance by exactly that and
\* leaves the marker; a consume whose workId has a marker ends in
\* already_consumed, whatever its token counts, and leaves the balance as it
\* was.  So a workId with a marker has been debited exactly once.
C1_SequentialIdempotence ==
    /\ (Quiet /\ ConsumeResponse /\ resp.kind # "rate_limit_exceeded") =>
          LET u        == UserOf(resp)
              rid      == RequestOf(resp)
              pt       == resp.body[1].promptTokens
              ct       == resp.body[1].completionTokens
              billable == FieldValue(pt) + FieldValue(ct)
              before   == BalanceOf(resp.pre[1].balance[u])
          IN  /\ resp.pre[1].consumed[rid] # Null =>
                    /\ resp.kind = "already_consumed"
                    /\ kvBalance = resp.pre[1].balance
                    /\ kvConsumed = resp.pre[1].consumed
              /\ ( /\ resp.pre[1].consumed[rid] = Null
                   /\ pt.t # "string" /\ ct.t # "string"
                   /\ FieldValue(ct) <= MAX_OUTPUT_TOKENS_PER_REQUEST
                   /\ before.v >= billable ) =>
                    /\ resp.kind = "ok"
                    /\ resp.userTokens = Num(billable)
                    /\ resp.next = Num(before.v - billable)
                    /\ kvBalance[u] = Some(NumberToString(Num(before.v - billable)))
                    /\ kvConsumed[rid] # Null
    /\ Quiet => \A r \in RequestIds :
                   debits[r] = IF kvConsumed[r] # Null THEN 1 ELSE 0

\* C1 witness: after a purchase of 1000 and a consume of 100 + 50 for r1, a
\* second consume for r1 with another payload was answered already_consumed
\* and the balance is still 850
C1_Witness ==
    /\ Quiet
    /\ resp.kind = "already_consumed"
    /\ RequestOf(resp) = "r1"
    /\ resp.body[1].promptTokens = JNum(900)
    /\ debits["r1"] = 1
    /\ resp.pre[1].balance["u1"] = Some(<<"8", "5", "0">>)
    /\ kvBalance["u1"] = Some(<<"8", "5", "0">>)

\* C2: each requestId is debited at most once, in every interleaving of the
\* store operations of overlapping /consume requests
C2_AtMostOneDebit == \A r \in RequestIds : debits[r] <= 1

\* C3: one rateAllow call at a time for one user, starting from no rate
\* record.  A window opens with the first call and with the first call made
\* RATE_LIMIT_WINDOW seconds or more after the open window's start.  A call
\* returns false exactly when more than RATE_LIMIT_MAX calls fall in its
\* window: the first RATE_LIMIT_MAX calls of a window return true and every
\* further one returns false.  The call that opens a window returns true and
\* stores {count: 1, start: now}; an admitted call stores its rank as count.
C3_RateWindow ==
    (Quiet /\ ConsumeResponse) =>
        LET u == UserOf(resp)
            w == win[u]
        IN  /\ w.start # Null
            /\ (resp.kind = "rate_limit_exceeded") <=> (w.calls > RATE_LIMIT_MAX)
            /\ w.calls = 1 => w.start[1] = resp.now
            /\ kvRate[u] # Null
            /\ kvRate[u][1].json =
                  JsonStringify([count |-> IF w.calls > RATE_LIMIT_MAX
                                           THEN RATE_LIMIT_MAX ELSE w.calls,
                                 start |-> w.start[1]])

\* C3 witness: a window was filled, a call was rejected, and after the window
\* was over a call was admitted as the first of a new window
C3_Witness ==
    /\ Quiet /\ ConsumeResponse
    /\ resp.kind # "rate_limit_exceeded"
    /\ win["u1"].rejected >= 1
    /\ win["u1"].calls = 1
    /\ win["u1"].start[1] >= RATE_LIMIT_WINDOW
    /\ kvRate["u1"][1].json.count = <<"1">>

Has(seq, x) == \E i \in DOMAIN seq : seq[i] = x

\* the last response ends a request that completed an addBalance call
AddBalanceResponse == Has(resp.wrote, "balance")

\* C4: one request at a time, starting from absent balance records.  As long
\* as the deltas applied to an account are numbers (none is NaN), getBalance
\* returns their sum, and every addBalance call returns the sum up to and
\* including its own delta.
C4_LedgerSum ==
    Quiet =>
        /\ \A u \in Users :
              ~ledger[u].nan => BalanceOf(kvBalance[u]) = ledger[u]
        /\ (AddBalanceResponse /\ ~ledger[UserOf(resp)].nan) =>
              resp.next = ledger[UserOf(resp)]
        /\ (resp.kind = "balance" /\ ~ledger[UserOf(resp)].nan) =>
              resp.balance = ledger[UserOf(resp)]

\* C4 witness: a credit of 1000 and a debit of 150 were applied and
\* GET /balance answered 850
C4_Witness ==
    /\ Quiet
    /\ resp.kind = "balance"
    /\ resp.balance = Num(850)
    /\ ledger["u1"] = Num(850)

\* the balance record a getBalance call read is missing or does not parse
Unparsable(raw) == raw = Null \/ ParseFloat(raw[1]).nan

\* C5: getBalance answers 0, not an error, when the balance record is
\* missing or does not parse as a number, and an addBalance(delta) that
\* reads such a record stores and returns exactly delta.
C5_MissingOrMalformed ==
    Quiet =>
        /\ (resp.route = "balance" /\ resp.at = "bal_get") =>
              /\ resp.kind = "balance"
              /\ Unparsable(resp.raw) => resp.balance = Num(0)
        /\ (AddBalanceResponse /\ Unparsable(resp.raw) /\ ~resp.delta.nan) =>
              /\ resp.next = resp.delta
              /\ kvBalance[UserOf(resp)] = Some(NumberToString(resp.delta))

\* C5 witness: the stored balance was the string "NaN" and a purchase of
\* 1000 stored and returned 1000
C5_Witness ==
    /\ Quiet
    /\ resp.kind = "purchased"
    /\ resp.raw = Some(<<"N", "a", "N">>)
    /\ resp.next = Num(1000)
    /\ kvBalance["u1"] = Some(<<"1", "0", "0", "0">>)

\* C6: a consume whose billable amount is greater than the balance it reads
\* ends in insufficient_balance and has written no balance record and no
\* marker: the balance is what it was before the request and the workId has
\* no marker.  A consume that went on to the debit read a balance that
\* covers its billable amount.
C6_InsufficientUntouched ==
    (Quiet /\ ConsumeResponse) =>
        /\ resp.kind = "insufficient_balance" =>
              /\ JsLt(resp.balance, resp.userTokens)
              /\ resp.balance = BalanceOf(resp.pre[1].balance[UserOf(resp)])
              /\ ~Has(resp.wrote, "balance") /\ ~Has(resp.wrote, "consumed")
              /\ kvBalance = resp.pre[1].balance
              /\ kvConsumed = resp.pre[1].consumed
              /\ kvConsumed[RequestOf(resp)] = Null
        /\ resp.at = "get_balance" => resp.kind = "insufficient_balance"
        /\ resp.kind = "ok" => ~JsLt(resp.balance, resp.userTokens)

\* C6 witness: with a balance of 1000 a consume of 900 + 200 was refused and
\* the balance is still 1000
C6_Witness ==
    /\ Quiet
    /\ resp.kind = "insufficient_balance"
    /\ resp.userTokens = Num(1100)
    /\ resp.balance = Num(1000)
    /\ kvBalance["u1"] = Some(<<"1", "0", "0", "0">>)

\* the last response answers a /consume whose body lacks userId or requestId
MissingId ==
    resp.body = Null \/ resp.body[1].userId = Null \/ resp.body[1].requestId = Null

\* the last response answers a /consume whose completionTokens exceed the cap
OverCap ==
    /\ ~MissingId
    /\ resp.body[1].completionTokens.t = "number"
    /\ resp.body[1].completionTokens.n > MAX_OUTPUT_TOKENS_PER_REQUEST

\* C7 as stated: a consume that lacks userId or requestId, or whose
\* completionTokens exceed the cap, ends in the invalid-input rejection and
\* has made no store write: balance, marker and rate-window records are as
\* they were
C7_InvalidInputNoWrite ==
    (Quiet /\ resp.route = "consume" /\ resp.kind # "server_error"
           /\ (MissingId \/ OverCap)) =>
        /\ resp.kind \in {"invalid_body", "output_too_large"}
        /\ resp.wrote = << >>
        /\ kvBalance = resp.pre[1].balance
        /\ kvConsumed = resp.pre[1].consumed
        /\ kvRate = resp.pre[1].rate

\* C7 amended: a consume that lacks userId or requestId ends in invalid_body
\* without any store write.  A consume whose completionTokens exceed the cap
\* is checked after the rate limiter and the idempotency check: it is
\* answered rate_limit_exceeded, already_consumed (its workId has a marker)
\* or output_too_large, it never changes a balance record or a marker, and
\* unless the rate limiter rejected it, it has been counted in the
\* rate-window record (its only write).
C7_InvalidInputAmended ==
    (Quiet /\ resp.route = "consume" /\ resp.kind # "server_error") =>
        /\ MissingId =>
              /\ resp.kind = "invalid_body"
              /\ resp.wrote = << >>
              /\ Snapshot = resp.pre[1]
        /\ OverCap =>
              /\ resp.kind \in {"rate_limit_exceeded", "already_consumed",
                                "output_too_large"}
              /\ resp.kind = "rate_limit_exceeded" =>
                    resp.wrote = << >> /\ kvRate = resp.pre[1].rate
              /\ resp.kind # "rate_limit_exceeded" =>
                    /\ resp.wrote = <<"rate">>
                    /\ kvRate # resp.pre[1].rate
                    /\ (resp.kind = "already_consumed") <=>
                          (resp.pre[1].consumed[RequestOf(resp)] # Null)
              /\ kvBalance = resp.pre[1].balance
              /\ kvConsumed = resp.pre[1].consumed
        /\ resp.kind = "output_too_large" => OverCap

\* C7 witness: a consume with completionTokens 2001 was answered
\* output_too_large after it had created the rate-window record
C7_Witness ==
    /\ Quiet
    /\ resp.kind = "output_too_large"
    /\ resp.wrote = <<"rate">>
    /\ resp.pre[1].rate["u1"] = Null
    /\ kvRate["u1"] # Null
    /\ kvBalance = resp.pre[1].balance

\* C8: the provider cost a consume reports is computed with the stored price
\* overrides (meta:priceIn, meta:priceOut) where one is present when the
\* request arrives, and with the default rate where none is
C8_OverridesApplied ==
    ( /\ Quiet /\ ConsumeResponse /\ resp.kind = "ok"
      /\ resp.body[1].promptTokens.t = "number"
      /\ resp.body[1].promptTokens.n >= 0
      /\ resp.body[1].completionTokens.t = "number"
      /\ resp.body[1].completionTokens.n >= 0 ) =>
        LET rates == getModelPricesFromKV(resp.pre[1].meta)
        IN  resp.provider[1].totalCost =
              Num(FieldValue(resp.body[1].promptTokens) * rates.priceIn.v
                  + FieldValue(resp.body[1].completionTokens) * rates.priceOut.v)

StoreErrors == {"server_error", "unhandled_rejection"}

\* C9: the marker of a workId is written only by a request that has, before
\* it, completed the balance write that subtracts its billable amount: a
\* request about to write the marker has written the rate record and then
\* the balance cur - userTokens; a response other than success, a failed
\* debit write included, comes from a request that wrote no marker; and
\* every marker in the store has a debit for its workId behind it.
C9_MarkerAfterDebit ==
    /\ \A p \in Procs :
          req[p].pc = "mark" =>
              /\ req[p].route = "consume"
              /\ req[p].wrote = <<"rate", "balance">>
              /\ req[p].next = JsAdd(req[p].cur, JsNeg(req[p].userTokens))
    /\ Has(resp.wrote, "consumed") =>
          resp.kind = "ok" /\ resp.wrote = <<"rate", "balance", "consumed">>
    /\ (resp.kind \in StoreErrors /\ resp.at = "add_put") =>
          ~Has(resp.wrote, "balance") /\ ~Has(resp.wrote, "consumed")
    /\ \A r \in RequestIds : kvConsumed[r] # Null => debits[r] >= 1

\* C9 witness: a consume wrote the rate record, the balance and then the
\* marker, and answered success
C9_Witness ==
    /\ resp.kind = "ok"
    /\ resp.wrote = <<"rate", "balance", "consumed">>
    /\ kvConsumed[RequestOf(resp)] # Null
    /\ debits[RequestOf(resp)] = 1

\* C10: one request at a time over a store whose operations may throw.  A
\* consume in which a store operation throws ends in the store-error outcome
\* at that operation, with the writes made before it and none after.  Thrown
\* before or at the debit write, it leaves balance and markers as they
\* were; thrown at the marker write, it leaves the debit in place and no
\* marker.  So a workId is debited once more than its marker write has
\* thrown: a retry after an early failure makes one debit in total, a retry
\* after a failed marker write debits a second time.
C10_RetrySafety ==
    /\ (Quiet /\ resp.route = "consume" /\ resp.kind \in StoreErrors) =>
          /\ resp.at \in {"idle", "rate_get", "rate_put"} => resp.wrote = << >>
          /\ resp.at \in {"is_consumed", "get_balance", "add_get", "add_put"} =>
                resp.wrote = <<"rate">>
          /\ resp.at # "mark" =>
                /\ kvBalance = resp.pre[1].balance
                /\ kvConsumed = resp.pre[1].consumed
          /\ resp.at = "mark" =>
                /\ resp.wrote = <<"rate", "balance">>
                /\ resp.next = JsAdd(BalanceOf(resp.pre[1].balance[UserOf(resp)]),
                                     JsNeg(resp.userTokens))
                /\ kvBalance[UserOf(resp)] = Some(NumberToString(resp.next))
                /\ kvConsumed[RequestOf(resp)] = Null
    /\ \A r \in RequestIds :
          /\ debits[r] <= 1 + markFails[r]
          /\ (Quiet /\ kvConsumed[r] # Null) => debits[r] = 1 + markFails[r]
    /\ (Quiet /\ ConsumeResponse /\ resp.kind = "ok") =>
          /\ kvConsumed[RequestOf(resp)] # Null
          /\ debits[RequestOf(resp)] = 1 + markFails[RequestOf(resp)]

\* C10 witness: the marker write of a consume for r1 threw after its debit
\* (1000 -> 850), and the retry with the same workId debited again (-> 700)
C10_Witness ==
    /\ Quiet
    /\ resp.kind = "ok"
    /\ RequestOf(resp) = "r1"
    /\ markFails["r1"] = 1
    /\ debits["r1"] = 2
    /\ kvBalance["u1"] = Some(<<"7", "0", "0">>)

\* C11: once the marker of a workId is stored, no /consume balance write for
\* that workId takes place any more, in every interleaving of the store
\* operations of overlapping /consume requests
C11_NoDebitAfterMarker ==
    [][\A r \in RequestIds : debits'[r] > debits[r] => kvConsumed[r] = Null]_vars

\* the rate record a request found in the store when it arrived
PreRate == resp.pre[1].rate[UserOf(resp)]

\* C12: one /consume at a time.  A rate-limited consume has read a record
\* whose window is not over and whose count is RATE_LIMIT_MAX or more, and
\* has written nothing: the rate record (count, start, expiry), the
\* balances and the markers are what they were when it arrived.  The stored
\* start stays the time of the window's first call however many calls are
\* rejected, so a call made RATE_LIMIT_WINDOW seconds or more after it is
\* admitted.
C12_RejectionWritesNothing ==
    (Quiet /\ ConsumeResponse) =>
        /\ resp.kind = "rate_limit_exceeded" =>
              /\ resp.wrote = << >>
              /\ Snapshot = resp.pre[1]
              /\ resp.rateRaw # Null
              /\ RateData(resp.rateRaw)[1].count >= RATE_LIMIT_MAX
              /\ resp.now - RateData(resp.rateRaw)[1].start < RATE_LIMIT_WINDOW
              /\ resp.rateRaw = Some(kvRate[UserOf(resp)][1].json)
              /\ JsonParse(kvRate[UserOf(resp)][1].json).start = win[UserOf(resp)].start[1]
        /\ ( /\ PreRate # Null
             /\ resp.now >= JsonParse(PreRate[1].json).start + RATE_LIMIT_WINDOW ) =>
              resp.kind # "rate_limit_exceeded"

\* C12 witness: two calls were rejected in a full window, and the call
\* made exactly RATE_LIMIT_WINDOW seconds after the window's start was
\* admitted as the first of a new window
C12_Witness ==
    /\ Quiet /\ ConsumeResponse
    /\ resp.kind # "rate_limit_exceeded"
    /\ win["u1"].rejected >= 2
    /\ PreRate # Null
    /\ JsonParse(PreRate[1].json).count = RATE_LIMIT_MAX
    /\ resp.now = JsonParse(PreRate[1].json).start + RATE_LIMIT_WINDOW
    /\ win["u1"].calls = 1

\* the calls of user u that returned true with Date.now() at or after t
AdmittedSince(u, t) ==
    Cardinality({i \in DOMAIN win[u].admits : t <= win[u].admits[i]})

\* the calls of user u that returned true with Date.now() in t .. t + len
AdmittedIn(u, t, len) ==
    Cardinality({i \in DOMAIN win[u].admits :
                    t <= win[u].admits[i] /\ win[u].admits[i] <= t + len})

\* C13: one rateAllow call at a time for one user.  Among the calls whose
\* Date.now() falls in any RATE_LIMIT_WINDOW + 1 consecutive seconds
\* t .. t + RATE_LIMIT_WINDOW (every real interval of RATE_LIMIT_WINDOW
\* seconds lies in one), at most 2 * RATE_LIMIT_MAX return true.
C13_OverAdmissionBound ==
    \A u \in Users : \A t \in 0..MaxBurstTime :
        AdmittedIn(u, t, RATE_LIMIT_WINDOW) <= 2 * RATE_LIMIT_MAX

\* C13 witness: RATE_LIMIT_MAX calls were admitted in a window that opened
\* at 0, the last of them in its last second, and RATE_LIMIT_MAX more in
\* the window that opened RATE_LIMIT_WINDOW seconds after it
C13_Witness ==
    /\ Quiet
    /\ AdmittedIn("u1", 0, RATE_LIMIT_WINDOW) = 2 * RATE_LIMIT_MAX
    /\ AdmittedIn("u1", 0, RATE_LIMIT_WINDOW - 1) = RATE_LIMIT_MAX
    /\ AdmittedIn("u1", RATE_LIMIT_WINDOW - 1, 0) >= 1
    /\ AdmittedIn("u1", RATE_LIMIT_WINDOW, 0) = RATE_LIMIT_MAX

\* the rate record stored for user u, parsed
Stored(u) == JsonParse(kvRate[u][1].json)

\* C14: overlapping rateAllow calls for one user.  A call returns false
\* only when at least RATE_LIMIT_MAX calls returned true with their
\* Date.now() in the RATE_LIMIT_WINDOW seconds up to its own, and the count
\* of every stored record is at most the number of calls that returned true
\* at or after the record's start.
C14_OnlyOverAdmission ==
    /\ (resp.route = "consume" /\ resp.kind = "rate_limit_exceeded") =>
          AdmittedIn(UserOf(resp), resp.now - RATE_LIMIT_WINDOW + 1,
                     RATE_LIMIT_WINDOW - 1) >= RATE_LIMIT_MAX
    /\ \A u \in Users :
          kvRate[u] # Null =>
              Stored(u).count <= AdmittedSince(u, Stored(u).start)

\* C14 witness: two overlapping calls both opened the window, so that three
\* calls had been admitted in it when a call was rejected
C14_Witness ==
    /\ resp.route = "consume" /\ resp.kind = "rate_limit_exceeded"
    /\ AdmittedIn("u1", resp.now - RATE_LIMIT_WINDOW + 1, RATE_LIMIT_WINDOW - 1)
          > RATE_LIMIT_MAX
    /\ Stored("u1").count = RATE_LIMIT_MAX

\* C19: overlapping rateAllow calls for one user while time passes.  Every
\* record in the store, and every record a call is about to put, has
\* 1 <= count <= RATE_LIMIT_MAX, and the expiry a record is stored with is
\* not before start + RATE_LIMIT_WINDOW.
C19_CounterInRange ==
    /\ \A u \in Users :
          kvRate[u] # Null =>
              /\ 1 <= Stored(u).count /\ Stored(u).count <= RATE_LIMIT_MAX
              /\ kvRate[u][1].exp >= Stored(u).start + RATE_LIMIT_WINDOW
    /\ \A p \in Procs :
          req[p].pc = "rate_put" =>
              /\ 1 <= req[p].data[1].count /\ req[p].data[1].count <= RATE_LIMIT_MAX
              /\ clock + req[p].ttl >= req[p].data[1].start + RATE_LIMIT_WINDOW

\* C19 witness: a call counted itself into the window opened at 0, another
\* call opened the next window, and then the put of the first call was
\* served: the store holds the full old window, expiring after its end
C19_Witness ==
    /\ kvRate["u1"] # Null
    /\ Stored("u1").count = RATE_LIMIT_MAX
    /\ Stored("u1").start = 0
    /\ win["u1"].start[1] >= RATE_LIMIT_WINDOW
    /\ kvRate["u1"][1].exp > RATE_LIMIT_WINDOW + 5

\* both purchases of a CreditSpec run have returned
BothCredited == Quiet /\ budget = 0

\* C15: two addBalance calls on one account that starts at b, with deltas
\* d1 and d2 (the last call to return has delta resp.delta; ledger is
\* b + d1 + d2).  When both have returned, the stored balance is b + d1,
\* b + d2 or b + d1 + d2, and each call returned what it read plus its delta.
C15_LostUpdate ==
    LET u     == "u1"
        b     == BalanceOf(CreditStart).v
        last  == resp.delta.v
        other == ledger[u].v - b - last
        final == BalanceOf(kvBalance[u]).v
    IN  /\ BothCredited =>
              /\ final \in {b + last, b + other, b + last + other}
              /\ kvBalance[u] = Some(NumberToString(resp.next))
        /\ \A p \in Procs :
              req[p].pc = "add_put" => req[p].next = JsAdd(req[p].cur, req[p].delta)

\* C15 witness: purchases of 1000 and 10000 both read 850, and the balance
\* left is 1850: the credit of 10000 is lost
C15_Witness ==
    /\ BothCredited
    /\ ledger["u1"] = Num(11850)
    /\ resp.cur = Num(850)
    /\ resp.delta = Num(1000)
    /\ kvBalance["u1"] = Some(<<"1", "8", "5", "0">>)

\* an override that is set and parses as a positive number
ValidOverride(x) ==
    IF Truthy(x) THEN ~ParseFloat(x[1]).nan /\ ParseFloat(x[1]).v > 0 ELSE FALSE

\* C16: a consume that computed its provider cost took, for a rate whose
\* env override is missing or is not a positive number, the default rate,
\* and the total cost it reports is a number
C16_BadOverridesFallBack ==
    (Quiet /\ ConsumeResponse /\ resp.provider # Null) =>
        /\ ~ValidOverride(env.MODEL_PRICE_IN) =>
              resp.provider[1].inputCost =
                 JsMul(resp.pTokens, Num(DEFAULT_MODEL_PRICE_IN))
        /\ ~ValidOverride(env.MODEL_PRICE_OUT) =>
              resp.provider[1].outputCost =
                 JsMul(resp.cTokens, Num(DEFAULT_MODEL_PRICE_OUT))
        /\ ~resp.provider[1].totalCost.nan

\* C17: purchases and /consume requests with token counts >= 0 whose store
\* operations interleave in every order.  The stored balance of an account
\* is never negative; stated for the runs in which no workId is debited
\* twice, that is for overlapping requests with different workIds.
C17_NoOverdraft ==
    (\A r \in RequestIds : debits[r] <= 1) =>
        \A u \in Users : BalanceOf(kvBalance[u]).v >= 0

\* C18: one request at a time.  A consume that passed input validation
\* (userId and requestId present, completionTokens within the cap) with
\* token counts that are numbers or missing deducts an amount >= 0 and
\* leaves a balance that is not greater than the balance before it.
C18_ConsumeNeverCredits ==
    ( /\ Quiet /\ ConsumeResponse /\ ~OverCap
      /\ resp.body[1].promptTokens.t # "string"
      /\ resp.body[1].completionTokens.t # "string" ) =>
        /\ resp.kind = "ok" => resp.userTokens.v >= 0
        /\ BalanceOf(kvBalance[UserOf(resp)]).v
              <= BalanceOf(resp.pre[1].balance[UserOf(resp)]).v
====
